---- MODULE Spec2Model ----
(***************************************************************************)
(* The audio back-end of kira/conductor: the command ring between the      *)
(* controller and the audio thread, Backend::process and its phases, the   *)
(* parameter arena, and the in-memory sounds' frame lookup.                *)
(***************************************************************************)
EXTENDS Integers, Sequences, FiniteSets, TLC

(***************************************************************************)
(* Bounds of the model.                                                    *)
(***************************************************************************)
\* successful pushes onto the command ring per behaviour (the serial numbers)
MaxPushes == 3
\* largest metronome time (in beats) at which a metronome is still advanced
MaxTime == 3
\* largest generation an arena slot reaches
MaxGeneration == 2
\* parameter commands in flight between the controller and the audio thread
MaxParamCommands == 1
\* longest sample buffer of a sound
MaxSamples == 2
\* longest cooldown a sound is configured with, largest dt of one
\* update_cooldown call, and the time a sound is followed for after its
\* cooldown started
MaxCooldown == 5
MaxDt == 3
MaxElapsed == 10
\* positions are multiples of 1/PosDen seconds, from -MaxPosition/PosDen to
\* MaxPosition/PosDen
PosDen == 2
MaxPosition == 8

(***************************************************************************)
(* AudioManagerSettings, as Backend::new receives them.                    *)
(***************************************************************************)
NumCommands == 2
NumEvents == 2
NumInstances == 1
NumSequences == 1
\* capacity of the parameter arena and of the unused-parameter ring
NumParameters == 2
NumUnused == 1

(***************************************************************************)
(* The project: the sounds and metronomes the back-end is constructed      *)
(* with.  "X" and "MX" are ids that are in no project.                     *)
(***************************************************************************)
\* duration of each sound of the project, in ticks of dt
ProjectSounds == [s \in {"A"} |-> 1]
\* the samples of each sound of the project (mono), one per tick
ProjectSamples == [s \in {"A"} |-> <<1>>]
\* the metronomes a project can hold, in the IndexMap's iteration order
MetronomeIds == <<"M1", "M2">>
\* the intervals (in beats) each metronome reports, ascending
MetronomeIntervals ==
    [m \in {"M1", "M2"} |-> IF m = "M1" THEN <<1, 2>> ELSE <<1, 3>>]

InstanceIds == 1 .. (NumInstances + 1)
SequenceIds == 1 .. (NumSequences + 1)

(***************************************************************************)
(* Command: the eight arms Backend::run_command matches on.                *)
(***************************************************************************)
Cmd(op, sound, inst, metro, seq, prog) ==
    [op |-> op, sound |-> sound, inst |-> inst, metro |-> metro, seq |-> seq, prog |-> prog]
PlaySound(s, i) == Cmd("PlaySound", s, i, "-", 0, 0)
PauseInstance(i) == Cmd("PauseInstance", "-", i, "-", 0, 0)
ResumeInstance(i) == Cmd("ResumeInstance", "-", i, "-", 0, 0)
StopInstance(i) == Cmd("StopInstance", "-", i, "-", 0, 0)
StartMetronome(m) == Cmd("StartMetronome", "-", 0, m, 0, 0)
PauseMetronome(m) == Cmd("PauseMetronome", "-", 0, m, 0, 0)
StopMetronome(m) == Cmd("StopMetronome", "-", 0, m, 0, 0)
StartSequence(q, k) == Cmd("StartSequence", "-", 0, "-", q, k)

(***************************************************************************)
(* The sequences a controller can start: a metronome id and the steps.     *)
(*   1: scenario 4 of the specification (play, wait for a beat, play)      *)
(*   2: starts sequence 3 from inside the sequence command queue           *)
(*   3: a single PlaySound                                                 *)
(*   4: bound to a metronome that is in no project                         *)
(*   5: a timed loop that stops an instance every second tick              *)
(***************************************************************************)
StepCmd(c) == [t |-> "Cmd", cmd |-> c]
StepWait(d) == [t |-> "Wait", d |-> d]
StepWaitForInterval(iv) == [t |-> "WaitForInterval", iv |-> iv]
StepGoTo(k) == [t |-> "GoTo", k |-> k]
StepEnd == [t |-> "End"]

Programs ==
    <<[metronome_id |-> "M1",
       steps |-> <<StepCmd(PlaySound("A", 1)), StepWaitForInterval(2),
                   StepCmd(PlaySound("A", 2))>>],
      [metronome_id |-> "M1",
       steps |-> <<StepCmd(StartSequence(2, 3))>>],
      [metronome_id |-> "M1",
       steps |-> <<StepCmd(PlaySound("A", 1)), StepEnd>>],
      [metronome_id |-> "MX",
       steps |-> <<StepCmd(PlaySound("A", 1))>>],
      [metronome_id |-> "M1",
       steps |-> <<StepWait(2), StepCmd(StopInstance(1)), StepGoTo(1)>>]>>

VARIABLES
    \* ---- the two rings between the controller and the audio thread
    cmdRing,          \* command ring: <<[cmd, serial]>>, oldest first
    eventRing,        \* event ring: <<[id, interval]>>, oldest first
    \* ---- Backend
    instances,        \* IndexMap<InstanceId, Instance>, in iteration order
    sequences,        \* IndexMap<SequenceId, Sequence>, in iteration order
    metronomes,       \* project.metronomes: id -> Metronome
    metronome_interval_event_collector,
    sequence_command_queue,
    sequences_to_remove,
    instances_to_remove,
    out,              \* the frame the last process() returned
    \* ---- position of the audio thread inside process()
    pc,               \* idle, process_commands, update_metronomes,
                      \* update_sequences, mix, panicked
    mi,               \* metronomes of this cycle already updated
    \* ---- controller
    nextSerial,       \* serial number of the next accepted command
    submitResult,     \* what the last submit returned to the controller
    \* ---- history of the current cycle and of the ring
    ranSerials,       \* serials of the ring commands passed to run_command
    trace,            \* phases of the current cycle, in the order they ran
    cycleQueued,      \* commands appended to the sequence queue this cycle
    cycleRan,         \* queue commands passed to run_command this cycle
    pushedInCycle,    \* a submit was accepted since this cycle started
    droppedInCycle,   \* update_metronomes dropped an event in this cycle
    missedInCycle,    \* a ring command of this cycle named an absent instance
    drainLimit,       \* inside a cycle: the serial the next accepted command
                      \* had when process() was called (0 between cycles)
    \* ---- Parameters (kira's manager/resources/parameters.rs)
    build,            \* the back-end a behaviour runs: "conductor" (Backend)
                      \* or "kira" (Parameters, Sound)
    parameters,       \* Arena<Parameter>: slot index -> slot
    unusedRing,       \* unused_parameter_producer's ring, oldest first
    paramCommands,    \* ParameterCommands sent and not yet run, oldest first
    paramPanicked,    \* Parameters::run_command panicked
    paramMissed,      \* the last parameter command run named no live parameter
    recycle,          \* position of the audio thread inside
                      \* remove_unused_parameters: [pc, visited, held]
    \* ---- Sound (kira's sound/mod.rs) and StaticSound (sound/static_sound.rs)
    sound,            \* [sample_rate, samples]: the buffer both are built from
    lookup,           \* the last frame asked for: the position and the frames
                      \* get_frame_at_position and frame_at_position returned
    settings_cooldown, \* Sound::settings.cooldown: <<>> (None) or <<c>> (Some(c))
    cooldown_timer,   \* Sound::cooldown_timer
    cooldownElapsed,  \* the dt given to update_cooldown since the last
                      \* start_cooldown that set the timer; -1 before it
    \* ---- StaticSound playback (sound/static_sound.rs)
    static_sound,     \* [state, position]; the position counts ticks of
                      \* 1 / (sample_rate * PosDen) seconds
    playback,         \* history of the process() calls: [calls, steady,
                      \* position_before, out]
    duration_rounding \* how the toolchain's Duration::from_secs_f64 rounds
                      \* to nanoseconds: "truncate" or "nearest"

vars == <<cmdRing, eventRing, instances, sequences, metronomes,
          metronome_interval_event_collector, sequence_command_queue,
          sequences_to_remove, instances_to_remove, out, pc, mi, nextSerial,
          submitResult, ranSerials, trace, cycleQueued, cycleRan,
          pushedInCycle, droppedInCycle, missedInCycle, build, parameters,
          drainLimit, unusedRing, paramCommands, paramPanicked, paramMissed, recycle,
          sound, lookup,
          settings_cooldown, cooldown_timer, cooldownElapsed,
          static_sound, playback, duration_rounding>>

conductorVars ==
    <<cmdRing, eventRing, instances, sequences, metronomes,
      metronome_interval_event_collector, sequence_command_queue,
      sequences_to_remove, instances_to_remove, out, pc, mi, nextSerial,
      submitResult, ranSerials, trace, cycleQueued, cycleRan,
      pushedInCycle, droppedInCycle, missedInCycle, drainLimit>>
parameterVars ==
    <<parameters, unusedRing, paramCommands, paramPanicked, paramMissed, recycle>>
cooldownVars == <<settings_cooldown, cooldown_timer, cooldownElapsed>>
staticVars == <<static_sound, playback, duration_rounding>>
soundVars == <<sound, lookup, cooldownVars, staticVars>>

\* project.metronomes: the metronomes of the loaded project, in iteration order
ProjectMetronomes == SelectSeq(MetronomeIds, LAMBDA m : m \in DOMAIN metronomes)

(***************************************************************************)
(* IndexMap: a sequence of [key, val] entries in iteration order.          *)
(***************************************************************************)
MapKeys(m) == {m[i].key : i \in 1 .. Len(m)}
MapHas(m, k) == k \in MapKeys(m)
MapIndex(m, k) == CHOOSE i \in 1 .. Len(m) : m[i].key = k
MapGet(m, k) == m[MapIndex(m, k)].val
\* insert: an existing key keeps its place and gets the new value
MapInsert(m, k, v) ==
    IF MapHas(m, k)
    THEN [m EXCEPT ![MapIndex(m, k)] = [key |-> k, val |-> v]]
    ELSE Append(m, [key |-> k, val |-> v])
MapSet(m, k, v) == [m EXCEPT ![MapIndex(m, k)] = [key |-> k, val |-> v]]
\* remove is swap_remove: the last entry takes the removed entry's place
MapRemove(m, k) ==
    IF ~MapHas(m, k) THEN m
    ELSE LET i == MapIndex(m, k)
             n == Len(m)
         IN  IF i = n THEN SubSeq(m, 1, n - 1)
             ELSE SubSeq([m EXCEPT ![i] = m[n]], 1, n - 1)
RECURSIVE MapRemoveAll(_, _)
MapRemoveAll(m, ks) ==
    IF ks = <<>> THEN m ELSE MapRemoveAll(MapRemove(m, Head(ks)), Tail(ks))

(***************************************************************************)
(* Instance (section 4.7): fades are absent, so every transition is        *)
(* instantaneous; pitch is 1.                                              *)
(***************************************************************************)
\* the InstanceSettings every PlaySound command carries
InstanceSettings == [volume |-> 2]
InstanceNew(sound_id, settings, duration) ==
    [sound_id |-> sound_id, state |-> "Playing", position |-> 0, duration |-> duration,
     volume |-> settings.volume]
\* effective_volume = volume.value * fade.value, the fade being 1
InstanceEffectiveVolume(inst) == inst.volume
InstancePause(inst) ==
    IF inst.state = "Playing" THEN [inst EXCEPT !.state = "Paused"] ELSE inst
InstanceResume(inst) ==
    IF inst.state = "Paused" THEN [inst EXCEPT !.state = "Playing"] ELSE inst
InstanceStop(inst) == [inst EXCEPT !.state = "Stopped"]
InstancePlaying(inst) == inst.state = "Playing"
InstanceFinished(inst) == inst.state = "Stopped"
InstanceUpdate(inst) ==
    IF inst.state # "Playing" THEN inst
    ELSE IF inst.position + 1 > inst.duration
         THEN [inst EXCEPT !.position = @ + 1, !.state = "Stopped"]
         ELSE [inst EXCEPT !.position = @ + 1]

(***************************************************************************)
(* Metronome (section 4.8): time counted in beats, one beat per tick.      *)
(***************************************************************************)
MetronomeNew == [ticking |-> FALSE, time |-> 0, previous_time |-> 0]
MetronomeStart(m) == [m EXCEPT !.ticking = TRUE]
MetronomePause(m) == [m EXCEPT !.ticking = FALSE]
MetronomeStop(m) == [ticking |-> FALSE, time |-> 0, previous_time |-> 0]
IntervalPassed(m, iv) == (m.time \div iv) > (m.previous_time \div iv)
\* update(dt, out): the metronome after the tick and the intervals appended
MetronomeUpdate(m, ivs, collector) ==
    IF ~m.ticking THEN [metronome |-> m, collector |-> collector]
    ELSE LET m2 == [m EXCEPT !.previous_time = m.time, !.time = m.time + 1]
         IN  [metronome |-> m2,
              collector |-> collector \o
                  SelectSeq(ivs, LAMBDA iv : iv > 0 /\ IntervalPassed(m2, iv))]

(***************************************************************************)
(* Sequence (section 4.9).  cursor is 1-based; wait_timer is -1 when no    *)
(* Wait step has been entered.                                             *)
(***************************************************************************)
SequenceNew(k) ==
    [metronome_id |-> Programs[k].metronome_id, prog |-> k, cursor |-> 1,
     state |-> "Idle", wait_timer |-> -1]
SequenceFinished(seq) == seq.state = "Finished"
\* the interpreter loop; updating is FALSE inside start(), where a wait
\* step suspends the sequence without time passing
RECURSIVE SequenceRun(_, _, _, _)
SequenceRun(seq, metronome, queue, updating) ==
    LET steps == Programs[seq.prog].steps
        yield == [sequence |-> seq, queue |-> queue]
    IN
    IF seq.state # "Running" THEN yield
    ELSE IF seq.cursor > Len(steps)
    THEN [sequence |-> [seq EXCEPT !.state = "Finished"], queue |-> queue]
    ELSE LET s == steps[seq.cursor]
             next == [seq EXCEPT !.cursor = @ + 1, !.wait_timer = -1]
         IN
         CASE s.t = "Wait" ->
                LET entered == IF seq.wait_timer = -1 THEN s.d ELSE seq.wait_timer
                    timer == IF updating THEN entered - 1 ELSE entered
                IN  IF updating /\ timer <= 0
                    THEN SequenceRun(next, metronome, queue, updating)
                    ELSE [sequence |-> [seq EXCEPT !.wait_timer = timer],
                          queue |-> queue]
           [] s.t = "WaitForInterval" ->
                IF updating /\ IntervalPassed(metronome, s.iv)
                THEN SequenceRun(next, metronome, queue, updating)
                ELSE yield
           [] s.t = "Cmd" ->
                SequenceRun(next, metronome, Append(queue, s.cmd), updating)
           [] s.t = "GoTo" ->
                SequenceRun([seq EXCEPT !.cursor = s.k, !.wait_timer = -1],
                            metronome, queue, updating)
           [] s.t = "End" ->
                [sequence |-> [seq EXCEPT !.state = "Finished"], queue |-> queue]
SequenceStart(seq, metronome, queue) ==
    SequenceRun([seq EXCEPT !.state = "Running", !.cursor = 1], metronome, queue, FALSE)
SequenceUpdate(seq, metronome, queue) ==
    SequenceRun(seq, metronome, queue, TRUE)

(***************************************************************************)
(* Backend::run_command.  b is the part of the Backend a command can       *)
(* touch; an unwrap() of an absent entry panics the audio thread.          *)
(***************************************************************************)
BackendState ==
    [instances |-> instances, sequences |-> sequences, metronomes |-> metronomes,
     queue |-> sequence_command_queue, panicked |-> FALSE]
Panic(b) == [b EXCEPT !.panicked = TRUE]
\* an instance command that finds no instance and unwraps
ForInstanceUnwrap(b, id, op) ==
    IF MapHas(b.instances, id)
    THEN [b EXCEPT !.instances =
            MapSet(@, id,
                   CASE op = "PauseInstance" -> InstancePause(MapGet(@, id))
                     [] op = "ResumeInstance" -> InstanceResume(MapGet(@, id))
                     [] op = "StopInstance" -> InstanceStop(MapGet(@, id)))]
    ELSE Panic(b)
\* lines 57-71: if let Some(instance) = self.instances.get_mut(&instance_id)
ForInstance(b, id, op) ==
    IF MapHas(b.instances, id)
    THEN [b EXCEPT !.instances =
            MapSet(@, id,
                   CASE op = "PauseInstance" -> InstancePause(MapGet(@, id))
                     [] op = "ResumeInstance" -> InstanceResume(MapGet(@, id))
                     [] op = "StopInstance" -> InstanceStop(MapGet(@, id)))]
    ELSE b
\* lines 72-80: self.project.metronomes.get_mut(&id).unwrap()
ForMetronome(b, id, op) ==
    IF id \in DOMAIN b.metronomes
    THEN [b EXCEPT !.metronomes[id] =
            CASE op = "StartMetronome" -> MetronomeStart(@)
              [] op = "PauseMetronome" -> MetronomePause(@)
              [] op = "StopMetronome" -> MetronomeStop(@)]
    ELSE Panic(b)
run_command(b, command) ==
    IF b.panicked THEN b
    ELSE CASE command.op = "PlaySound" ->
                IF command.sound \in DOMAIN ProjectSounds
                THEN [b EXCEPT !.instances =
                        MapInsert(@, command.inst,
                                  InstanceNew(command.sound, InstanceSettings,
                                              ProjectSounds[command.sound]))]
                ELSE Panic(b)
           [] command.op \in {"PauseInstance", "ResumeInstance", "StopInstance"} ->
                ForInstance(b, command.inst, command.op)
           [] command.op \in {"StartMetronome", "PauseMetronome", "StopMetronome"} ->
                ForMetronome(b, command.metro, command.op)
           [] command.op = "StartSequence" ->
                LET sequence == SequenceNew(command.prog)
                IN  IF sequence.metronome_id \in DOMAIN b.metronomes
                    THEN LET r == SequenceStart(sequence,
                                                b.metronomes[sequence.metronome_id],
                                                b.queue)
                         IN  [b EXCEPT !.queue = r.queue,
                                       !.sequences = MapInsert(@, command.seq, r.sequence)]
                    ELSE Panic(b)

(***************************************************************************)
(* Backend::update_sequences, after the metronomes were advanced.          *)
(***************************************************************************)
\* lines 111-117: update every sequence in map order, note the finished ones
\* an update loop that asks finished() before sequence.update
RECURSIVE UpdateEachSequenceFinishedFirst(_, _, _)
UpdateEachSequenceFinishedFirst(b, i, to_remove) ==
    IF i > Len(b.sequences) THEN [b |-> b, to_remove |-> to_remove]
    ELSE LET e == b.sequences[i]
         IN  IF e.val.metronome_id \notin DOMAIN b.metronomes
             THEN [b |-> Panic(b), to_remove |-> to_remove]
             ELSE LET r == SequenceUpdate(e.val, b.metronomes[e.val.metronome_id], b.queue)
                      b2 == [b EXCEPT !.sequences[i] = [key |-> e.key, val |-> r.sequence],
                                      !.queue = r.queue]
                  IN  UpdateEachSequenceFinishedFirst(b2, i + 1,
                          IF SequenceFinished(e.val)
                          THEN Append(to_remove, e.key) ELSE to_remove)
RECURSIVE UpdateEachSequence(_, _, _)
UpdateEachSequence(b, i, to_remove) ==
    IF i > Len(b.sequences) THEN [b |-> b, to_remove |-> to_remove]
    ELSE LET e == b.sequences[i]
         IN  IF e.val.metronome_id \notin DOMAIN b.metronomes
             THEN [b |-> Panic(b), to_remove |-> to_remove]
             ELSE LET r == SequenceUpdate(e.val, b.metronomes[e.val.metronome_id], b.queue)
                      b2 == [b EXCEPT !.sequences[i] = [key |-> e.key, val |-> r.sequence],
                                      !.queue = r.queue]
                  IN  UpdateEachSequence(b2, i + 1,
                          IF SequenceFinished(r.sequence)
                          THEN Append(to_remove, e.key) ELSE to_remove)
\* lines 121-124: the range 0..len is fixed when the loop starts; ran is the
\* list of the queue commands passed to run_command
RECURSIVE RunQueue(_, _, _, _)
RunQueue(b, i, n, ran) ==
    IF i > n \/ b.panicked THEN [b |-> b, ran |-> ran]
    ELSE RunQueue(run_command(b, b.queue[i]), i + 1, n, Append(ran, b.queue[i]))
\* the index one past the last queue entry the drain loop visits
QueueDrainEnd(queue) == Len(queue)

(***************************************************************************)
(* The mix pass of Backend::process (lines 132-146).                       *)
(***************************************************************************)
\* the project sound's sample under an instance's position
SampleAt(sound_id, position) ==
    IF position < ProjectSounds[sound_id] THEN ProjectSamples[sound_id][position + 1] ELSE 0
\* a mix pass that asks finished() after instance.update
RECURSIVE MixEachFinishedAfterUpdate(_, _, _, _)
MixEachFinishedAfterUpdate(insts, i, sum, to_remove) ==
    IF i > Len(insts) THEN [instances |-> insts, out |-> sum, to_remove |-> to_remove]
    ELSE LET inst == insts[i].val
         IN  MixEachFinishedAfterUpdate(
                     [insts EXCEPT ![i].val = InstanceUpdate(inst)], i + 1,
                     IF InstancePlaying(inst)
                     THEN sum + SampleAt(inst.sound_id, inst.position)
                                    * InstanceEffectiveVolume(inst)
                     ELSE sum,
                     IF InstanceFinished(InstanceUpdate(inst))
                     THEN Append(to_remove, insts[i].key) ELSE to_remove)
\* a mix pass that sums every instance, playing or not
RECURSIVE MixEachNotOnlyPlaying(_, _, _, _)
MixEachNotOnlyPlaying(insts, i, sum, to_remove) ==
    IF i > Len(insts) THEN [instances |-> insts, out |-> sum, to_remove |-> to_remove]
    ELSE LET inst == insts[i].val
         IN  MixEachNotOnlyPlaying(
                     [insts EXCEPT ![i].val = InstanceUpdate(inst)], i + 1,
                     sum + SampleAt(inst.sound_id, inst.position)
                               * InstanceEffectiveVolume(inst),
                     IF InstanceFinished(inst)
                     THEN Append(to_remove, insts[i].key) ELSE to_remove)
RECURSIVE MixEach(_, _, _, _)
MixEach(insts, i, sum, to_remove) ==
    IF i > Len(insts) THEN [instances |-> insts, out |-> sum, to_remove |-> to_remove]
    ELSE LET inst == insts[i].val
         IN  MixEach([insts EXCEPT ![i].val = InstanceUpdate(inst)], i + 1,
                     IF InstancePlaying(inst)
                     THEN sum + SampleAt(inst.sound_id, inst.position)
                                    * InstanceEffectiveVolume(inst)
                     ELSE sum,
                     IF InstanceFinished(inst)
                     THEN Append(to_remove, insts[i].key) ELSE to_remove)

(***************************************************************************)
(* The order of the phases inside Backend::process (lines 129-147).        *)
(***************************************************************************)
\* a process() that updates the sequences before the metronomes
AfterPhaseSequencesFirst(p) ==
    CASE p = "idle" -> "process_commands"
      [] p = "process_commands" -> "update_sequences"
      [] p = "update_sequences" -> "update_metronomes"
      [] p = "update_metronomes" -> "mix"
      [] p = "mix" -> "idle"
AfterPhase(p) ==
    CASE p = "idle" -> "process_commands"
      [] p = "process_commands" -> "update_metronomes"
      [] p = "update_metronomes" -> "update_sequences"
      [] p = "update_sequences" -> "mix"
      [] p = "mix" -> "idle"
\* the trace with a phase noted once
Noted(tr, tag) == IF tr # <<>> /\ tr[Len(tr)] = tag THEN tr ELSE Append(tr, tag)

(***************************************************************************)
(* The rings (section 4.2): push fails when the ring is full, pop returns  *)
(* the oldest item.                                                        *)
(***************************************************************************)
RingFull(ring, capacity) == Len(ring) >= capacity
RingPush(ring, item) == Append(ring, item)

(***************************************************************************)
(* The parameter arena (section 4.3): a slot is vacant, reserved by the    *)
(* controller for an id it handed out, or occupied.                        *)
(***************************************************************************)
NoParameter == [value |-> 0, target |-> 0]
VacantSlot(generation) ==
    [generation |-> generation, reserved |-> FALSE, occupied |-> FALSE,
     marked |-> FALSE, parameter |-> NoParameter]
ParameterId(index, generation) == [index |-> index, generation |-> generation]
\* get / get_mut: the item only when the slot's generation is the id's
ArenaResolves(arena, id) ==
    /\ id.index \in DOMAIN arena
    /\ arena[id.index].occupied
    /\ arena[id.index].generation = id.generation
\* insert_with_index: the slot the controller reserved for this id
ArenaCanInsert(arena, id) ==
    /\ id.index \in DOMAIN arena
    /\ arena[id.index].reserved
    /\ ~arena[id.index].occupied
    /\ arena[id.index].generation = id.generation
ArenaInsert(arena, id, parameter) ==
    [arena EXCEPT ![id.index] =
        [generation |-> id.generation, reserved |-> FALSE, occupied |-> TRUE,
         marked |-> FALSE, parameter |-> parameter]]
ArenaLen(arena) == Cardinality({i \in DOMAIN arena : arena[i].occupied})

(***************************************************************************)
(* Parameter (section 4.4): a tween reaches its target in one update.       *)
(***************************************************************************)
ParameterNew(value) == [value |-> value, target |-> value]
ParameterSet(parameter, value) == [value |-> value, target |-> value]
ParameterTween(parameter, target) == [parameter EXCEPT !.target = target]
ParameterUpdate(parameter) == [parameter EXCEPT !.value = parameter.target]

ParameterAdd(id, value) == [op |-> "Add", id |-> id, value |-> value]
ParameterCommandSet(id, value) == [op |-> "Set", id |-> id, value |-> value]
ParameterCommandTween(id, target) == [op |-> "Tween", id |-> id, value |-> target]

\* a Set or Tween that goes by the slot index alone
ParametersRunCommandAnyGeneration(arena, command) ==
    IF command.op = "Add" THEN ArenaInsert(arena, command.id, ParameterNew(command.value))
    ELSE IF command.id.index \in DOMAIN arena /\ arena[command.id.index].occupied
    THEN [arena EXCEPT ![command.id.index].parameter =
            IF command.op = "Set" THEN ParameterSet(@, command.value)
            ELSE ParameterTween(@, command.value)]
    ELSE arena
\* Parameters::run_command (lines 56-78), for a command that does not panic
ParametersRunCommand(arena, command) ==
    CASE command.op = "Add" ->
            ArenaInsert(arena, command.id, ParameterNew(command.value))
      [] command.op = "Set" ->
            IF ArenaResolves(arena, command.id)
            THEN [arena EXCEPT ![command.id.index].parameter =
                    ParameterSet(@, command.value)]
            ELSE arena
      [] command.op = "Tween" ->
            IF ArenaResolves(arena, command.id)
            THEN [arena EXCEPT ![command.id.index].parameter =
                    ParameterTween(@, command.value)]
            ELSE arena
\* line 61: expect("Parameter arena is full")
ParametersRunCommandPanics(arena, command) ==
    command.op = "Add" /\ ~ArenaCanInsert(arena, command.id)

\* remove_unused_parameters (lines 32-47), from slot i on
RECURSIVE RemoveUnusedFrom(_, _, _)
RemoveUnusedFrom(arena, ring, i) ==
    IF i > NumParameters THEN [arena |-> arena, ring |-> ring]
    ELSE IF arena[i].occupied /\ arena[i].marked
    THEN LET arena2 == [arena EXCEPT ![i] = VacantSlot(arena[i].generation)]
             ring2 == Append(ring, arena[i].parameter)
         IN  IF Len(ring2) >= NumUnused
             THEN [arena |-> arena2, ring |-> ring2]
             ELSE RemoveUnusedFrom(arena2, ring2, i + 1)
    ELSE RemoveUnusedFrom(arena, ring, i + 1)
remove_unused_parameters(arena, ring) ==
    IF Len(ring) >= NumUnused THEN [arena |-> arena, ring |-> ring]
    ELSE RemoveUnusedFrom(arena, ring, 1)

\* Backend::new over a project that holds the metronomes ids
InitBackendOf(ids) ==
    /\ cmdRing = <<>>
    /\ eventRing = <<>>
    /\ instances = <<>>
    /\ sequences = <<>>
    /\ metronomes = [m \in ids |-> MetronomeNew]
    /\ metronome_interval_event_collector = <<>>
    /\ sequence_command_queue = <<>>
    /\ sequences_to_remove = <<>>
    /\ instances_to_remove = <<>>
    /\ out = 0
    /\ pc = "idle"
    /\ mi = 0
    /\ nextSerial = 1
    /\ submitResult = "None"
    /\ ranSerials = <<>>
    /\ trace = <<>>
    /\ cycleQueued = <<>>
    /\ cycleRan = <<>>
    /\ pushedInCycle = FALSE
    /\ droppedInCycle = FALSE
    /\ missedInCycle = FALSE
    /\ drainLimit = 0

\* a project with the one metronome M1
InitBackend == InitBackendOf({"M1"})

\* Parameters::new (lines 17-22)
InitParameters ==
    /\ parameters = [i \in 1 .. NumParameters |-> VacantSlot(0)]
    /\ unusedRing = <<>>
    /\ paramCommands = <<>>
    /\ paramPanicked = FALSE
    /\ paramMissed = FALSE
    /\ recycle = [pc |-> "idle", visited |-> {}, held |-> <<>>]

\* StaticSound::new (static_sound.rs lines 28-35), no process() call yet
InitNoPlayback ==
    /\ static_sound = [state |-> "Playing", position |-> 0]
    /\ playback = [calls |-> 0, steady |-> TRUE, position_before |-> 0, out |-> 0]
    /\ duration_rounding = "nearest"

\* no sound is looked at
InitNoSound ==
    /\ sound = [sample_rate |-> 1, samples |-> <<>>]
    /\ lookup = [asked |-> FALSE, position |-> 0, frame |-> 0, static_frame |-> 0]
    /\ settings_cooldown = <<>>
    /\ cooldown_timer = 0
    /\ cooldownElapsed = -1
    /\ InitNoPlayback

Init == InitBackend /\ InitParameters /\ InitNoSound /\ build = "conductor"

backendVars == <<instances, sequences, metronomes, sequence_command_queue>>
scratchVars == <<metronome_interval_event_collector, sequences_to_remove,
                 instances_to_remove>>
cycleVars == <<trace, cycleQueued, cycleRan, droppedInCycle, missedInCycle>>

(***************************************************************************)
(* Controller side.                                                        *)
(***************************************************************************)
\* a controller method submits one command: CommandQueueFull when the ring
\* is full, and then nothing is enqueued
SendCommand(command) ==
    /\ build = "conductor"
    /\ IF RingFull(cmdRing, NumCommands)
       THEN /\ submitResult' = "CommandQueueFull"
            /\ UNCHANGED <<cmdRing, nextSerial, pushedInCycle>>
       ELSE /\ nextSerial <= MaxPushes
            /\ cmdRing' = RingPush(cmdRing, [cmd |-> command, serial |-> nextSerial])
            /\ nextSerial' = nextSerial + 1
            /\ submitResult' = "Ok"
            /\ pushedInCycle' = TRUE
    /\ UNCHANGED <<build, parameterVars, soundVars, drainLimit>>
    /\ UNCHANGED <<eventRing, backendVars, scratchVars, cycleVars, out, pc, mi,
                   ranSerials>>

\* the controller drains one event
PopEvent ==
    /\ build = "conductor"
    /\ eventRing # <<>>
    /\ eventRing' = Tail(eventRing)
    /\ UNCHANGED <<build, parameterVars, soundVars, drainLimit>>
    /\ UNCHANGED <<cmdRing, backendVars, scratchVars, cycleVars, out, pc, mi,
                   nextSerial, submitResult, ranSerials, pushedInCycle>>

(***************************************************************************)
(* Audio side: one process() call, step by step.                           *)
(***************************************************************************)
ApplyBackend(b) ==
    /\ instances' = b.instances
    /\ sequences' = b.sequences
    /\ metronomes' = b.metronomes
    /\ sequence_command_queue' = b.queue

\* the host calls process()
process ==
    /\ build = "conductor"
    /\ pc = "idle"
    /\ \A id \in DOMAIN metronomes :
          metronomes[id].ticking => metronomes[id].time < MaxTime
    /\ pc' = AfterPhase(pc)
    /\ trace' = <<>>
    /\ cycleQueued' = <<>>
    /\ cycleRan' = <<>>
    /\ pushedInCycle' = FALSE
    /\ droppedInCycle' = FALSE
    /\ missedInCycle' = FALSE
    /\ drainLimit' = nextSerial
    /\ UNCHANGED <<build, parameterVars, soundVars>>
    /\ UNCHANGED <<cmdRing, eventRing, backendVars, scratchVars, out, mi,
                   nextSerial, submitResult, ranSerials>>

\* a drain that stops while one command is still in the ring
PopSomeButLast(ring) == Len(ring) > 1
\* line 90: the loop goes on while pop() returns a command
PopSome(ring) == ring # <<>>
\* a loop body that runs the popped command twice
CommandsToRunTwice(popped) == <<popped, popped>>
\* line 91: the popped command is passed to run_command
CommandsToRun(popped) == <<popped>>
RECURSIVE RunAll(_, _)
RunAll(b, cs) == IF cs = <<>> THEN b ELSE RunAll(run_command(b, Head(cs)), Tail(cs))

\* an instance command whose id is not in the instance map
NamesAbsentInstance(command) ==
    /\ command.op \in {"PauseInstance", "ResumeInstance", "StopInstance"}
    /\ ~MapHas(instances, command.inst)

\* process_commands, one iteration of its loop
PopCommand ==
    /\ build = "conductor"
    /\ pc = "process_commands"
    /\ PopSome(cmdRing)
    /\ LET torun == CommandsToRun(Head(cmdRing))
           b == RunAll(BackendState, [i \in 1 .. Len(torun) |-> torun[i].cmd])
       IN  /\ ApplyBackend(b)
           /\ pc' = IF b.panicked THEN "panicked" ELSE pc
           /\ ranSerials' = ranSerials \o [i \in 1 .. Len(torun) |-> torun[i].serial]
    /\ cmdRing' = Tail(cmdRing)
    /\ trace' = Noted(trace, "ring_command")
    /\ missedInCycle' = (missedInCycle \/ NamesAbsentInstance(Head(cmdRing).cmd))
    /\ UNCHANGED <<build, parameterVars, soundVars, drainLimit>>
    /\ UNCHANGED <<eventRing, scratchVars, out, mi, nextSerial, submitResult,
                   cycleQueued, cycleRan, pushedInCycle, droppedInCycle>>

\* process_commands returns: pop() found the ring empty
EndProcessCommands ==
    /\ build = "conductor"
    /\ pc = "process_commands"
    /\ ~PopSome(cmdRing)
    /\ pc' = AfterPhase(pc)
    /\ UNCHANGED <<build, parameterVars, soundVars, drainLimit>>
    /\ UNCHANGED <<cmdRing, eventRing, backendVars, scratchVars, cycleVars, out,
                   mi, nextSerial, submitResult, ranSerials, pushedInCycle>>

\* a drain that keeps the interval it could not push, to push it again
DrainedCollectorKeepsDropped(collector, pushed) ==
    IF pushed THEN Tail(collector) ELSE collector
\* lines 98-106: drain(..) takes the interval out whether push succeeded or not
DrainedCollector(collector, pushed) == Tail(collector)

\* an event that names the first metronome of the project
IntervalEventOfFirst(i, interval) ==
    [id |-> ProjectMetronomes[1], interval |-> interval]
\* line 101: Event::MetronomeIntervalPassed(*id, interval), id being the key
\* of the loop's current entry
IntervalEvent(i, interval) == [id |-> ProjectMetronomes[i], interval |-> interval]

\* update_metronomes, line 97: the next metronome of the project is updated
UpdateMetronome ==
    /\ build = "conductor"
    /\ pc = "update_metronomes"
    /\ metronome_interval_event_collector = <<>>
    /\ mi < Len(ProjectMetronomes)
    /\ LET id == ProjectMetronomes[mi + 1]
           r == MetronomeUpdate(metronomes[id], MetronomeIntervals[id],
                                metronome_interval_event_collector)
       IN  /\ metronomes' = [metronomes EXCEPT ![id] = r.metronome]
           /\ metronome_interval_event_collector' = r.collector
    /\ mi' = mi + 1
    /\ trace' = Noted(trace, "metronomes")
    /\ UNCHANGED <<build, parameterVars, soundVars, drainLimit>>
    /\ UNCHANGED <<cmdRing, eventRing, instances, sequences, sequence_command_queue,
                   sequences_to_remove, instances_to_remove, out, pc, nextSerial,
                   submitResult, ranSerials, cycleQueued, cycleRan, pushedInCycle,
                   droppedInCycle, missedInCycle>>

\* update_metronomes, lines 98-106: one collected interval becomes an event
PushIntervalEvent ==
    /\ build = "conductor"
    /\ pc = "update_metronomes"
    /\ metronome_interval_event_collector # <<>>
    /\ LET event == IntervalEvent(mi, Head(metronome_interval_event_collector))
           pushed == ~RingFull(eventRing, NumEvents)
       IN  /\ eventRing' = IF pushed THEN RingPush(eventRing, event) ELSE eventRing
           /\ droppedInCycle' = (droppedInCycle \/ ~pushed)
           /\ metronome_interval_event_collector' =
                  DrainedCollector(metronome_interval_event_collector, pushed)
    /\ UNCHANGED <<build, parameterVars, soundVars, drainLimit>>
    /\ UNCHANGED <<cmdRing, backendVars, sequences_to_remove, instances_to_remove,
                   out, pc, mi, nextSerial, submitResult, ranSerials, trace,
                   cycleQueued, cycleRan, pushedInCycle, missedInCycle>>

\* update_metronomes returns
EndUpdateMetronomes ==
    /\ build = "conductor"
    /\ pc = "update_metronomes"
    /\ metronome_interval_event_collector = <<>>
    /\ mi = Len(ProjectMetronomes)
    /\ pc' = AfterPhase(pc)
    /\ mi' = 0
    /\ trace' = Noted(trace, "metronomes")
    /\ UNCHANGED <<build, parameterVars, soundVars, drainLimit>>
    /\ UNCHANGED <<cmdRing, eventRing, backendVars, scratchVars, out, nextSerial,
                   submitResult, ranSerials, cycleQueued, cycleRan, pushedInCycle,
                   droppedInCycle, missedInCycle>>

\* update_sequences (lines 110-126)
update_sequences ==
    /\ build = "conductor"
    /\ pc = "update_sequences"
    /\ LET u == UpdateEachSequence(BackendState, 1, sequences_to_remove)
           b1 == [u.b EXCEPT !.sequences = MapRemoveAll(@, u.to_remove)]
           r == IF u.b.panicked THEN [b |-> u.b, ran |-> <<>>]
                ELSE RunQueue(b1, 1, QueueDrainEnd(b1.queue), <<>>)
       IN  /\ instances' = r.b.instances
           /\ sequences' = r.b.sequences
           /\ metronomes' = r.b.metronomes
           /\ sequence_command_queue' = IF r.b.panicked THEN r.b.queue ELSE <<>>
           /\ sequences_to_remove' = IF u.b.panicked THEN u.to_remove ELSE <<>>
           /\ pc' = IF r.b.panicked THEN "panicked" ELSE AfterPhase(pc)
           /\ cycleQueued' = r.b.queue
           /\ cycleRan' = r.ran
           /\ trace' = IF r.ran = <<>> THEN Noted(trace, "sequences")
                       ELSE Noted(Noted(trace, "sequences"), "sequence_command")
    /\ UNCHANGED <<build, parameterVars, soundVars, drainLimit>>
    /\ UNCHANGED <<cmdRing, eventRing, metronome_interval_event_collector,
                   instances_to_remove, out, mi, nextSerial, submitResult,
                   ranSerials, pushedInCycle, droppedInCycle, missedInCycle>>

\* the rest of process (lines 132-147): mix, advance and reclaim the instances
mix ==
    /\ build = "conductor"
    /\ pc = "mix"
    /\ LET r == MixEach(instances, 1, 0, instances_to_remove)
       IN  /\ instances' = MapRemoveAll(r.instances, r.to_remove)
           /\ out' = r.out
    /\ instances_to_remove' = <<>>
    /\ pc' = AfterPhase(pc)
    /\ trace' = Noted(trace, "mix")
    /\ drainLimit' = 0
    /\ UNCHANGED <<build, parameterVars, soundVars>>
    /\ UNCHANGED <<cmdRing, eventRing, sequences, metronomes,
                   sequence_command_queue, metronome_interval_event_collector,
                   sequences_to_remove, mi, nextSerial, submitResult, ranSerials,
                   cycleQueued, cycleRan, pushedInCycle, droppedInCycle, missedInCycle>>

Audio ==
    \/ process
    \/ PopCommand
    \/ EndProcessCommands
    \/ UpdateMetronome
    \/ PushIntervalEvent
    \/ EndUpdateMetronomes
    \/ update_sequences
    \/ mix

(***************************************************************************)
(* The commands a controller submits.                                      *)
(***************************************************************************)
AllCommands ==
    {PlaySound(s, i) : s \in {"A", "X"}, i \in InstanceIds}
    \cup {PauseInstance(i) : i \in InstanceIds}
    \cup {ResumeInstance(i) : i \in InstanceIds}
    \cup {StopInstance(i) : i \in InstanceIds}
    \cup {StartMetronome(m) : m \in {"M1", "MX"}}
    \cup {PauseMetronome(m) : m \in {"M1", "MX"}}
    \cup {StopMetronome(m) : m \in {"M1", "MX"}}
    \cup {StartSequence(1, k) : k \in 1 .. Len(Programs)}

Submit == \E command \in AllCommands : SendCommand(command)

Next == Submit \/ PopEvent \/ Audio

Spec == Init /\ [][Next]_vars

\* a controller that starts the metronome and a sequence bound to it, and
\* plays and stops an instance of its own
CycleCommands ==
    {StartMetronome("M1"), StartSequence(1, 1), PlaySound("A", 2), StopInstance(2)}

SubmitCycle == \E command \in CycleCommands : SendCommand(command)

NextCycle == SubmitCycle \/ PopEvent \/ Audio

SpecCycle == Init /\ [][NextCycle]_vars

\* a controller that also submits a sound that is in no project
LiveCommands == {StartMetronome("M1"), PlaySound("A", 1), PlaySound("X", 2)}

SubmitLive == \E command \in LiveCommands : SendCommand(command)

NextLive == SubmitLive \/ PopEvent \/ Audio

\* the host keeps calling process(), and a process() call in progress goes on
SpecLive == Init /\ [][NextLive]_vars /\ WF_vars(Audio)

(***************************************************************************)
(* kira's Parameters: the controller hands out ids and sends commands, the *)
(* audio thread runs them and recycles the parameters marked for removal.  *)
(***************************************************************************)
\* ids the controller has handed out so far (live or stale)
HandedOutIds ==
    {ParameterId(i, g) : i \in 1 .. NumParameters, g \in 1 .. MaxGeneration}
        \cap {id \in [index : 1 .. NumParameters, generation : 1 .. MaxGeneration] :
                id.generation <= parameters[id.index].generation}

\* the controller adds a parameter: it reserves a vacant slot, whose
\* generation goes up, and sends Add with the id
AddParameter ==
    /\ build = "kira"
    /\ Len(paramCommands) < MaxParamCommands
    /\ \E i \in 1 .. NumParameters, value \in {0} :
          /\ ~parameters[i].reserved
          /\ ~parameters[i].occupied
          /\ parameters[i].generation < MaxGeneration
          /\ parameters' = [parameters EXCEPT
                              ![i].reserved = TRUE,
                              ![i].generation = @ + 1]
          /\ paramCommands' =
                Append(paramCommands,
                       ParameterAdd(ParameterId(i, parameters[i].generation + 1), value))
    /\ UNCHANGED <<conductorVars, soundVars, build, recycle, unusedRing, paramPanicked, paramMissed>>

\* the controller sets or tweens a parameter through an id it holds
SendParameterCommand ==
    /\ build = "kira"
    /\ Len(paramCommands) < MaxParamCommands
    /\ \E id \in HandedOutIds, value \in {0, 1} :
          \/ paramCommands' = Append(paramCommands, ParameterCommandSet(id, value))
          \/ paramCommands' = Append(paramCommands, ParameterCommandTween(id, value))
    /\ UNCHANGED <<conductorVars, soundVars, build, recycle, parameters, unusedRing, paramPanicked,
                   paramMissed>>

\* the controller drops a parameter's handle: the parameter is marked
MarkParameterForRemoval ==
    /\ build = "kira"
    /\ \E i \in 1 .. NumParameters :
          /\ parameters[i].occupied
          /\ ~parameters[i].marked
          /\ parameters' = [parameters EXCEPT ![i].marked = TRUE]
    /\ UNCHANGED <<conductorVars, soundVars, build, recycle, unusedRing, paramCommands, paramPanicked,
                   paramMissed>>

\* the controller takes a recycled parameter out of the unused ring
PopUnusedParameter ==
    /\ build = "kira"
    /\ unusedRing # <<>>
    /\ unusedRing' = Tail(unusedRing)
    /\ UNCHANGED <<conductorVars, soundVars, build, recycle, parameters, paramCommands, paramPanicked,
                   paramMissed>>

\* the audio thread runs the next parameter command
RunParameterCommand ==
    /\ build = "kira"
    /\ recycle.pc = "idle"
    /\ ~paramPanicked
    /\ paramCommands # <<>>
    /\ LET command == Head(paramCommands)
       IN  IF ParametersRunCommandPanics(parameters, command)
           THEN /\ paramPanicked' = TRUE
                /\ UNCHANGED <<parameters, paramMissed>>
           ELSE /\ parameters' = ParametersRunCommand(parameters, command)
                /\ paramMissed' = (command.op # "Add"
                                   /\ ~ArenaResolves(parameters, command.id))
                /\ UNCHANGED paramPanicked
    /\ paramCommands' = Tail(paramCommands)
    /\ UNCHANGED <<conductorVars, soundVars, build, recycle, unusedRing>>

\* Parameters::on_start_processing (lines 49-54)
on_start_processing ==
    /\ build = "kira"
    /\ recycle.pc = "idle"
    /\ ~paramPanicked
    /\ LET r == remove_unused_parameters(parameters, unusedRing)
       IN  /\ parameters' = r.arena
           /\ unusedRing' = r.ring
    /\ UNCHANGED <<conductorVars, soundVars, build, recycle, paramCommands, paramPanicked, paramMissed>>

\* Parameters::update (lines 80-84)
update ==
    /\ build = "kira"
    /\ recycle.pc = "idle"
    /\ ~paramPanicked
    /\ parameters' = [i \in 1 .. NumParameters |->
                        IF parameters[i].occupied
                        THEN [parameters[i] EXCEPT !.parameter = ParameterUpdate(@)]
                        ELSE parameters[i]]
    /\ UNCHANGED <<conductorVars, soundVars, build, recycle, unusedRing, paramCommands, paramPanicked,
                   paramMissed>>

ParametersNext ==
    \/ AddParameter
    \/ SendParameterCommand
    \/ MarkParameterForRemoval
    \/ PopUnusedParameter
    \/ RunParameterCommand
    \/ on_start_processing
    \/ update

\* a controller whose instance ids go stale: instance 2 never exists, and
\* instance 1 is reclaimed once it has stopped
StaleCommands ==
    {PlaySound("A", 1), StopInstance(1), PauseInstance(2), ResumeInstance(2),
     StopInstance(2), StartMetronome("M1")}

SubmitStale == \E command \in StaleCommands : SendCommand(command)

InitStale ==
    InitBackend /\ InitParameters /\ InitNoSound /\ build \in {"conductor", "kira"}

NextStale == SubmitStale \/ Audio \/ ParametersNext

\* either back-end, with ids that do not resolve
SpecStale == InitStale /\ [][NextStale]_vars

(***************************************************************************)
(* Properties.                                                             *)
(***************************************************************************)
Range(f) == {f[i] : i \in DOMAIN f}
\* the serials of the commands the controller pushed successfully, in order
PushedSerials == [i \in 1 .. (nextSerial - 1) |-> i]
IsPrefix(a, b) == Len(a) <= Len(b) /\ a = SubSeq(b, 1, Len(a))

\* C1: the ring commands passed to run_command, over all cycles, are a
\* prefix of the commands the controller pushed successfully: same order,
\* none duplicated, none skipped.
C1_RingOrder == IsPrefix(ranSerials, PushedSerials)

\* a drain that ran two commands while the controller pushed a third
C1_Witness ==
    /\ pc = "process_commands"
    /\ Len(ranSerials) >= 2
    /\ pushedInCycle
    /\ cmdRing # <<>>

PhaseRank(tag) ==
    CASE tag = "ring_command" -> 1
      [] tag = "metronomes" -> 2
      [] tag = "sequences" -> 3
      [] tag = "sequence_command" -> 4
      [] tag = "mix" -> 5

\* C2: within one process() cycle the phases run in the order ring commands,
\* metronomes, sequences, sequence-generated commands, mix; a finished cycle
\* went through the metronomes, the sequences and the mix.
C2_PhaseOrder ==
    /\ \A i, j \in 1 .. Len(trace) :
          i < j => PhaseRank(trace[i]) < PhaseRank(trace[j])
    /\ (pc = "idle" /\ trace # <<>>) =>
          {"metronomes", "sequences", "mix"} \subseteq Range(trace)
    /\ (pc = "mix") => {"metronomes", "sequences"} \subseteq Range(trace)
    /\ (pc = "update_sequences") => "metronomes" \in Range(trace)

\* a finished cycle in which all five phases did something
C2_Witness ==
    /\ pc = "idle"
    /\ trace = <<"ring_command", "metronomes", "sequences", "sequence_command", "mix">>

\* C3: a submit to a ring that holds NumCommands undrained commands fails
\* with CommandQueueFull and leaves the ring as it is; after a process()
\* call with no submit since it started the ring is empty, and a submit to
\* a ring that is not full is accepted.
C3_QueueFull ==
    /\ [](pc = "idle" /\ trace # <<>> /\ ~pushedInCycle => cmdRing = <<>>)
    /\ [][\A command \in CycleCommands :
            SendCommand(command) =>
                IF Len(cmdRing) = NumCommands
                THEN cmdRing' = cmdRing /\ submitResult' = "CommandQueueFull"
                ELSE /\ submitResult' = "Ok"
                     /\ cmdRing' = Append(cmdRing, [cmd |-> command, serial |-> nextSerial])]_vars

\* the fifth-submit scenario: the ring was full, the submit failed, and a
\* whole process() call has drained the ring since
C3_Witness ==
    /\ submitResult = "CommandQueueFull"
    /\ pc = "idle"
    /\ trace # <<>>
    /\ ~pushedInCycle
    /\ cmdRing = <<>>
    /\ Len(ranSerials) >= NumCommands

\* a ticking metronome has reached the largest time the model follows
TimeCapReached ==
    \E id \in DOMAIN metronomes : metronomes[id].ticking /\ metronomes[id].time >= MaxTime

\* C4: every command whose push succeeded is eventually passed to
\* run_command, provided the audio side keeps calling process().
C4_NoCommandLost ==
    \A serial \in 1 .. MaxPushes :
        (serial < nextSerial) ~> (serial \in Range(ranSerials) \/ TimeCapReached)

UnknownTarget(command) ==
    \/ command.op = "PlaySound" /\ command.sound \notin DOMAIN ProjectSounds
    \/ /\ command.op \in {"StartMetronome", "PauseMetronome", "StopMetronome"}
       /\ command.metro \notin DOMAIN metronomes
    \/ /\ command.op = "StartSequence"
       /\ Programs[command.prog].metronome_id \notin DOMAIN metronomes
\* the audio thread pops the head of the command ring in this step
PopsCommand == pc = "process_commands" /\ cmdRing # <<>> /\ cmdRing' = Tail(cmdRing)

\* C5: a command that names a sound or metronome that is not in the project
\* is ignored: no panic, and the instances, sequences and metronomes stay
\* as they are.
C5_UnknownIgnored ==
    [][(PopsCommand /\ UnknownTarget(Head(cmdRing).cmd)) =>
          /\ pc' # "panicked"
          /\ instances' = instances
          /\ sequences' = sequences
          /\ metronomes' = metronomes]_vars

\* the audio thread runs the head of the parameter commands in this step
RunsParameterCommand ==
    /\ build = "kira"
    /\ paramCommands # <<>>
    /\ paramCommands' = Tail(paramCommands)

\* C6: a command whose id resolves to no live item changes nothing and does
\* not panic: Pause/Resume/StopInstance with an id absent from the instance
\* map, and ParameterCommand Set / Tween with an id the arena does not
\* resolve.
C6_StaleIdNoOp ==
    /\ [][(PopsCommand /\ NamesAbsentInstance(Head(cmdRing).cmd)) =>
             /\ pc' = pc
             /\ UNCHANGED <<instances, sequences, metronomes, sequence_command_queue,
                            eventRing, instances_to_remove, sequences_to_remove, out>>]_vars
    /\ [][(/\ RunsParameterCommand
           /\ Head(paramCommands).op \in {"Set", "Tween"}
           /\ ~ArenaResolves(parameters, Head(paramCommands).id)) =>
             /\ ~paramPanicked'
             /\ UNCHANGED <<parameters, unusedRing>>]_vars

\* an instance is playing and a ring command of the finished cycle named an
\* absent instance; or a parameter is live in a slot and the last command
\* run named the slot's earlier generation or a vacant slot
C6_Witness ==
    \/ /\ build = "conductor"
       /\ pc = "idle"
       /\ missedInCycle
       /\ instances # <<>>
    \/ /\ build = "kira"
       /\ paramMissed
       /\ ~paramPanicked
       /\ \E i \in 1 .. NumParameters :
             parameters[i].occupied /\ parameters[i].generation > 1

\* C7: the live items of each kind never exceed the configured capacity:
\* instances, sequences, parameters.
C7_WithinCapacity ==
    /\ Len(instances) <= NumInstances
    /\ Len(sequences) <= NumSequences
    /\ ArenaLen(parameters) <= NumParameters

\* the metronome update_metronomes is at, once it has updated one
CurrentMetronome == metronomes[ProjectMetronomes[mi]]

\* C8: when the event ring is full as a metronome's interval is to be
\* pushed, the event is dropped and the drain goes on: the event ring is
\* unchanged, the interval leaves the collector, the metronome keeps the
\* time it advanced to, the collector is empty in the later phases, and the
\* event ring only ever receives the interval at the head of the collector.
C8_EventDropped ==
    /\ [][(PushIntervalEvent /\ Len(eventRing) >= NumEvents) =>
             /\ eventRing' = eventRing
             /\ metronome_interval_event_collector' =
                   Tail(metronome_interval_event_collector)
             /\ metronomes' = metronomes
             /\ pc' = pc]_vars
    /\ [](metronome_interval_event_collector # <<>> =>
             /\ pc = "update_metronomes"
             /\ CurrentMetronome.ticking
             /\ CurrentMetronome.time = CurrentMetronome.previous_time + 1)
    /\ [][eventRing' # eventRing =>
             \/ eventRing # <<>> /\ eventRing' = Tail(eventRing)
             \/ /\ pc = "update_metronomes"
                /\ metronome_interval_event_collector # <<>>
                /\ Len(eventRing) < NumEvents
                /\ eventRing' =
                      Append(eventRing,
                             [id |-> ProjectMetronomes[mi],
                              interval |-> Head(metronome_interval_event_collector)])
                /\ metronome_interval_event_collector' =
                      Tail(metronome_interval_event_collector)]_vars

\* a cycle that dropped an event has run to its end, the ring still full
C8_Witness ==
    /\ droppedInCycle
    /\ pc = "idle"
    /\ "mix" \in Range(trace)
    /\ Len(eventRing) = NumEvents
    /\ metronomes["M1"].time >= 2
    /\ metronome_interval_event_collector = <<>>

FrameZero == 0
\* sample_position = sample_rate * position, in units of 1/PosDen samples
SamplePosition(snd, position) == snd.sample_rate * position
\* (sample_position % 1.0): the remainder keeps the sign of the dividend
Fraction(sample_position) ==
    IF sample_position >= 0 THEN sample_position % PosDen
    ELSE -((-sample_position) % PosDen)
\* sample_position as usize: truncates, and saturates to 0 below zero
AsUsize(sample_position) ==
    IF sample_position < 0 THEN 0 ELSE sample_position \div PosDen
\* self.samples.get(index).unwrap_or(ZERO), index counted from 0
SampleOrZero(snd, index) ==
    IF index >= 0 /\ index < Len(snd.samples) THEN snd.samples[index + 1] ELSE FrameZero
\* util::interpolate_frame (section 4.1), times 2 * PosDen^3
interpolate_frame(y0, y1, y2, y3, x) ==
    LET c0 == 2 * y1
        c1 == y2 - y0
        c2 == 2 * y0 - 5 * y1 + 4 * y2 - y3
        c3 == (y3 - y0) + 3 * (y1 - y2)
    IN  c3 * x * x * x + c2 * x * x * PosDen + c1 * x * PosDen * PosDen
            + c0 * PosDen * PosDen * PosDen
\* Sound::get_frame_at_position (mod.rs lines 251-280)
get_frame_at_position(snd, position) ==
    LET sample_position == SamplePosition(snd, position)
        x == Fraction(sample_position)
        current_sample_index == AsUsize(sample_position)
        y0 == IF current_sample_index = 0 THEN FrameZero
              ELSE SampleOrZero(snd, current_sample_index - 1)
        y1 == SampleOrZero(snd, current_sample_index)
        y2 == SampleOrZero(snd, current_sample_index + 1)
        y3 == SampleOrZero(snd, current_sample_index + 2)
        c0 == 2 * y1
        c1 == y2 - y0
        c2 == 2 * y0 - 5 * y1 + 4 * y2 - y3
        c3 == (y3 - y0) + 3 * (y1 - y2)
    IN  ((c3 * x + c2 * PosDen) * x + c1 * PosDen * PosDen) * x
            + c0 * PosDen * PosDen * PosDen
\* StaticSound::frame_at_index (static_sound.rs lines 41-47)
frame_at_index(snd, index) == SampleOrZero(snd, index)
\* StaticSound::frame_at_position (static_sound.rs lines 49-62):
\* lines 51-61, from the sample position on
FrameAtSamplePosition(snd, sample_position) ==
    LET fraction == Fraction(sample_position)
        current_sample_index == AsUsize(sample_position)
        previous == IF current_sample_index = 0 THEN FrameZero
                    ELSE frame_at_index(snd, current_sample_index - 1)
        current == frame_at_index(snd, current_sample_index)
        next_1 == frame_at_index(snd, current_sample_index + 1)
        next_2 == frame_at_index(snd, current_sample_index + 2)
    IN  interpolate_frame(previous, current, next_1, next_2, fraction)
frame_at_position(snd, position) ==
    FrameAtSamplePosition(snd, SamplePosition(snd, position))

\* the sample buffers a sound is made from
SampleBuffers ==
    UNION {[1 .. n -> {-1, 1, 2}] : n \in 0 .. MaxSamples}

\* Sound::new / StaticSound::new on the same buffer
InitSound ==
    /\ InitBackend
    /\ InitParameters
    /\ build = "kira"
    /\ \E rate \in {1, 2}, samples \in SampleBuffers :
          sound = [sample_rate |-> rate, samples |-> samples]
    /\ lookup = [asked |-> FALSE, position |-> 0, frame |-> 0, static_frame |-> 0]
    /\ settings_cooldown = <<>>
    /\ cooldown_timer = 0
    /\ cooldownElapsed = -1
    /\ InitNoPlayback

\* a caller asks both sounds for the frame at a position
GetFrame ==
    /\ build = "kira"
    /\ \E position \in (0 - MaxPosition) .. MaxPosition :
          lookup' = [asked |-> TRUE, position |-> position,
                     frame |-> get_frame_at_position(sound, position),
                     static_frame |-> frame_at_position(sound, position)]
    /\ UNCHANGED <<conductorVars, parameterVars, build, sound, cooldownVars, staticVars>>

NextSound == GetFrame

SpecSound == InitSound /\ [][NextSound]_vars

\* C10: get_frame_at_position(t) and StaticSound::frame_at_position(t)
\* return ZERO for every t < 0 and for every t more than one sample period
\* past the end of the buffer.
C10_OutOfRangeZero ==
    (/\ lookup.asked
     /\ \/ lookup.position < 0
        \/ SamplePosition(sound, lookup.position) >= (Len(sound.samples) + 1) * PosDen)
    => (lookup.frame = FrameZero /\ lookup.static_frame = FrameZero)

(***************************************************************************)
(* Sound cooldown (mod.rs lines 282-302).  Times are whole numbers of an   *)
(* arbitrary unit.                                                         *)
(***************************************************************************)
\* Sound::start_cooldown (lines 283-287): the timer afterwards
start_cooldown(setting, timer) == IF setting # <<>> THEN setting[1] ELSE timer
\* update_cooldown that keeps decrementing below zero
update_cooldown_unguarded(timer, dt) == timer - dt
\* Sound::update_cooldown (lines 290-294): the timer afterwards
update_cooldown(timer, dt) == IF timer > 0 THEN timer - dt ELSE timer
\* Sound::cooling_down (lines 300-302)
cooling_down(timer) == timer > 0

\* Sound::new (line 35): the timer starts at 0.0, whatever the settings
InitCooldown ==
    /\ InitBackend
    /\ InitParameters
    /\ build = "kira"
    /\ sound = [sample_rate |-> 1, samples |-> <<>>]
    /\ lookup = [asked |-> FALSE, position |-> 0, frame |-> 0, static_frame |-> 0]
    /\ settings_cooldown \in {<<>>} \cup {<<c>> : c \in 0 .. MaxCooldown}
    /\ cooldown_timer = 0
    /\ cooldownElapsed = -1
    /\ InitNoPlayback

StartCooldown ==
    /\ build = "kira"
    /\ cooldown_timer' = start_cooldown(settings_cooldown, cooldown_timer)
    /\ cooldownElapsed' = IF settings_cooldown # <<>> THEN 0 ELSE cooldownElapsed
    /\ UNCHANGED <<conductorVars, parameterVars, build, sound, lookup, settings_cooldown,
                   staticVars>>

UpdateCooldown(dt) ==
    /\ build = "kira"
    /\ cooldownElapsed + dt <= MaxElapsed
    /\ cooldown_timer' = update_cooldown(cooldown_timer, dt)
    /\ cooldownElapsed' = IF cooldownElapsed >= 0 THEN cooldownElapsed + dt
                          ELSE cooldownElapsed
    /\ UNCHANGED <<conductorVars, parameterVars, build, sound, lookup, settings_cooldown,
                   staticVars>>

NextCooldown == StartCooldown \/ \E dt \in 1 .. MaxDt : UpdateCooldown(dt)

SpecCooldown == InitCooldown /\ [][NextCooldown]_vars

\* C11: a new sound is not cooling down; start_cooldown sets the timer to
\* settings.cooldown when one is configured and changes nothing otherwise,
\* so a sound without a cooldown is never cooling down; after a
\* start_cooldown with cooldown c > 0 the sound is cooling down exactly
\* while the dt accumulated by update_cooldown is below c; and once it is not
\* cooling down, update_cooldown leaves the timer unchanged.
C11_Cooldown ==
    /\ [](cooldownElapsed = -1 => ~cooling_down(cooldown_timer))
    /\ [](settings_cooldown = <<>> => ~cooling_down(cooldown_timer))
    /\ []((cooldownElapsed >= 0 /\ settings_cooldown # <<>> /\ settings_cooldown[1] > 0)
            => (cooling_down(cooldown_timer) <=> cooldownElapsed < settings_cooldown[1]))
    /\ [][StartCooldown =>
            cooldown_timer' = IF settings_cooldown = <<>> THEN cooldown_timer
                              ELSE settings_cooldown[1]]_vars
    /\ [][(\E dt \in 1 .. MaxDt : UpdateCooldown(dt)) /\ ~cooling_down(cooldown_timer)
            => cooldown_timer' = cooldown_timer]_vars
\* a cooldown that ran out by a dt that overshot it, followed by an update
C11_Witness ==
    /\ settings_cooldown # <<>>
    /\ settings_cooldown[1] > 1
    /\ cooldown_timer < 0
    /\ cooldownElapsed > settings_cooldown[1] + 1

\* C12: in one process() cycle the audio side pops at most the commands the
\* ring held when the drain started: a command accepted after process() was
\* called is not passed to run_command in that cycle.
C12_BoundedDrain ==
    (drainLimit > 0) => \A i \in DOMAIN ranSerials : ranSerials[i] < drainLimit

\* C13: the mix pass of process() removes from the instance map exactly the
\* instances that reported finished() when the pass visited them (before
\* their update); every other instance stays; and instances_to_remove is
\* empty at the end of every process() call.
C13_InstanceReclaimed ==
    /\ [](pc = "idle" => instances_to_remove = <<>>)
    /\ [][mix =>
            /\ MapKeys(instances') =
                  {k \in MapKeys(instances) : ~InstanceFinished(MapGet(instances, k))}
            /\ instances_to_remove' = <<>>]_vars
\* sequence 1 has played instance 1 and waits; the instance reached the end
\* of its sound, was found finished by a later mix pass and is gone, while
\* instance 2 is still in the map
C13_Witness ==
    /\ pc = "idle"
    /\ MapHas(sequences, 1)
    /\ MapGet(sequences, 1).cursor >= 2
    /\ ~MapHas(instances, 1)
    /\ MapHas(instances, 2)

\* the sequences of the map that report finished() after this cycle's update
FinishedAfterUpdate ==
    {k \in MapKeys(sequences) :
        LET seq == MapGet(sequences, k)
        IN  /\ seq.metronome_id \in DOMAIN metronomes
            /\ SequenceFinished(
                   SequenceUpdate(seq, metronomes[seq.metronome_id], <<>>).sequence)}
\* the queue as the update loop leaves it
QueuedByUpdates == UpdateEachSequence(BackendState, 1, <<>>).b.queue
\* the sequences a command run from the queue started
StartedFromQueue(ran) ==
    {ran[i].seq : i \in {j \in DOMAIN ran : ran[j].op = "StartSequence"}}

\* C14: every sequence that reports finished() after its update is removed
\* from the sequence map in that same update_sequences call, the commands the
\* updates appended (those of a finishing sequence's last update included) are
\* run afterwards, a sequence that is not finished is not removed, and
\* sequences_to_remove is empty at the end of every cycle.
C14_SequenceReclaimed ==
    /\ [](pc \in {"idle", "mix"} => sequences_to_remove = <<>>)
    /\ [][(update_sequences /\ pc' # "panicked") =>
            /\ MapKeys(sequences') \ StartedFromQueue(cycleRan') =
                  (MapKeys(sequences) \ FinishedAfterUpdate) \ StartedFromQueue(cycleRan')
            /\ MapKeys(sequences) \ FinishedAfterUpdate \subseteq MapKeys(sequences')
            /\ IsPrefix(QueuedByUpdates, cycleRan')]_vars
\* sequence 1 finished in the update that emitted its last PlaySound: it is
\* gone from the map and the instance it asked for has been created
C14_Witness ==
    /\ pc = "mix"
    /\ sequences = <<>>
    /\ cycleRan = <<PlaySound("A", 2)>>
    /\ MapHas(instances, 2)

\* the contributions of the playing instances among the first n of a map
\* (a sound is silent past its last sample)
RECURSIVE PlayingSum(_, _)
PlayingSum(insts, n) ==
    IF n = 0 THEN 0
    ELSE PlayingSum(insts, n - 1)
         + (IF /\ InstancePlaying(insts[n].val)
                /\ insts[n].val.position < Len(ProjectSamples[insts[n].val.sound_id])
            THEN ProjectSamples[insts[n].val.sound_id][insts[n].val.position + 1]
                     * insts[n].val.volume
            ELSE 0)

\* C15: the frame process() returns is the sum, over exactly the instances
\* that are playing when the mix pass visits them, of the sound's sample at
\* the position the instance has before this cycle's update, times its
\* effective volume; it is ZERO when no instance is playing; and every
\* instance that stays in the map has been updated exactly once.
C15_MixOutput ==
    [][mix =>
        /\ out' = PlayingSum(instances, Len(instances))
        /\ (\A i \in 1 .. Len(instances) : ~InstancePlaying(instances[i].val)) => out' = 0
        /\ \A k \in MapKeys(instances') :
              MapGet(instances', k) = InstanceUpdate(MapGet(instances, k))]_vars
\* a pass that summed two playing instances has returned
C15_Witness ==
    /\ pc = "idle"
    /\ out = 2 * InstanceSettings.volume
    /\ Len(instances) = 2

(***************************************************************************)
(* Parameters::remove_unused_parameters (lines 32-47) step by step, with   *)
(* the controller marking parameters and popping the unused ring in        *)
(* between.  drain_filter hands over one item per iteration; the order in  *)
(* which it visits the slots is the arena's and is left open.              *)
(***************************************************************************)
\* a first check that never lets the drain start
StartsDrainNever(ring) == FALSE
\* line 33: if self.unused_parameter_producer.is_full() { return; }
StartsDrain(ring) == ~RingFull(ring, NumUnused)
\* a filter that takes every parameter
DrainFilterTakesAll(slot) == slot.occupied
\* line 38: |parameter| parameter.shared().is_marked_for_removal()
DrainFilterTakes(slot) == slot.occupied /\ slot.marked
\* a loop that goes on whatever the ring's fill
ReturnsAfterPushNever(ring) == FALSE
\* lines 43-45: if self.unused_parameter_producer.is_full() { return; }
ReturnsAfterPush(ring) == RingFull(ring, NumUnused)

RecycleIdle == [pc |-> "idle", visited |-> {}, held |-> <<>>]

\* on_start_processing is called: the first is_full check (line 33)
IsFullAtStart ==
    /\ build = "kira"
    /\ ~paramPanicked
    /\ recycle.pc = "idle"
    /\ recycle' = IF StartsDrain(unusedRing)
                  THEN [pc |-> "drain", visited |-> {}, held |-> <<>>]
                  ELSE RecycleIdle
    /\ UNCHANGED <<conductorVars, soundVars, build, parameters, unusedRing,
                   paramCommands, paramPanicked, paramMissed>>

\* the drain_filter iterator looks at one more slot (lines 36-39)
DrainFilterNext ==
    /\ build = "kira"
    /\ recycle.pc = "drain"
    /\ \E i \in (1 .. NumParameters) \ recycle.visited :
          IF DrainFilterTakes(parameters[i])
          THEN /\ parameters' = [parameters EXCEPT ![i] = VacantSlot(@.generation)]
               /\ recycle' = [pc |-> "push", visited |-> recycle.visited \cup {i},
                              held |-> <<parameters[i].parameter>>]
          ELSE /\ recycle' = [recycle EXCEPT !.visited = @ \cup {i}]
               /\ UNCHANGED parameters
    /\ UNCHANGED <<conductorVars, soundVars, build, unusedRing, paramCommands,
                   paramPanicked, paramMissed>>

\* the iterator is exhausted: the loop and remove_unused_parameters end
DrainFilterEnd ==
    /\ build = "kira"
    /\ recycle.pc = "drain"
    /\ recycle.visited = 1 .. NumParameters
    /\ recycle' = RecycleIdle
    /\ UNCHANGED <<conductorVars, soundVars, build, parameters, unusedRing,
                   paramCommands, paramPanicked, paramMissed>>

\* lines 40-42: push the drained parameter, panic if the ring refuses it
PushUnused ==
    /\ build = "kira"
    /\ recycle.pc = "push"
    /\ IF RingFull(unusedRing, NumUnused)
       THEN /\ paramPanicked' = TRUE
            /\ recycle' = [recycle EXCEPT !.pc = "panicked", !.held = <<>>]
            /\ UNCHANGED unusedRing
       ELSE /\ unusedRing' = RingPush(unusedRing, recycle.held[1])
            /\ recycle' = [recycle EXCEPT !.pc = "check", !.held = <<>>]
            /\ UNCHANGED paramPanicked
    /\ UNCHANGED <<conductorVars, soundVars, build, parameters, paramCommands,
                   paramMissed>>

\* lines 43-45: the is_full check after the push
IsFullAfterPush ==
    /\ build = "kira"
    /\ recycle.pc = "check"
    /\ recycle' = IF ReturnsAfterPush(unusedRing) THEN RecycleIdle
                  ELSE [recycle EXCEPT !.pc = "drain"]
    /\ UNCHANGED <<conductorVars, soundVars, build, parameters, unusedRing,
                   paramCommands, paramPanicked, paramMissed>>

RemoveUnusedSteps ==
    \/ IsFullAtStart
    \/ DrainFilterNext
    \/ DrainFilterEnd
    \/ PushUnused
    \/ IsFullAfterPush

\* a parameter an Add command put into a slot and a Set gave its value
AddedParameter(value) ==
    [generation |-> 1, reserved |-> FALSE, occupied |-> TRUE, marked |-> FALSE,
     parameter |-> ParameterSet(ParameterNew(0), value)]

\* the arena some Add and Set commands after Parameters::new: every slot is
\* still vacant or holds a parameter whose handle the controller has
InitRecycle ==
    /\ InitBackend
    /\ InitNoSound
    /\ build = "kira"
    /\ parameters \in [1 .. NumParameters ->
                          {VacantSlot(0)} \cup {AddedParameter(v) : v \in {0, 1}}]
    /\ unusedRing = <<>>
    /\ paramCommands = <<>>
    /\ paramPanicked = FALSE
    /\ paramMissed = FALSE
    /\ recycle = RecycleIdle

NextRecycle ==
    \/ AddParameter
    \/ RunParameterCommand
    \/ MarkParameterForRemoval
    \/ PopUnusedParameter
    \/ RemoveUnusedSteps

SpecRecycle == InitRecycle /\ [][NextRecycle]_vars

\* the audio callback keeps being called and the controller keeps popping
SpecRecycleLive ==
    SpecRecycle /\ WF_vars(RemoveUnusedSteps) /\ WF_vars(PopUnusedParameter)

\* C16: every parameter remove_unused_parameters takes out of the arena is
\* pushed onto the unused ring, only parameters marked for removal are taken
\* out, and none is taken out while the unused ring is full.
C16_RecycledNotDropped ==
    /\ [](recycle.held # <<>> => recycle.pc = "push")
    /\ [][\A i \in 1 .. NumParameters :
            (parameters[i].occupied /\ ~parameters'[i].occupied) =>
                /\ parameters[i].marked
                /\ ~RingFull(unusedRing, NumUnused)
                /\ recycle'.held = <<parameters[i].parameter>>]_vars
    /\ [][(recycle.held # <<>> /\ recycle'.held = <<>>) =>
            unusedRing' = Append(unusedRing, recycle.held[1])]_vars
\* a parameter that was set to 1 has been recycled, the ring is full and
\* another marked parameter is still in the arena
C16_Witness ==
    /\ recycle.pc = "idle"
    /\ unusedRing = <<[value |-> 1, target |-> 1]>>
    /\ RingFull(unusedRing, NumUnused)
    /\ \E i \in 1 .. NumParameters : parameters[i].occupied /\ parameters[i].marked

\* C17: the panic "Unused parameter producer is full" is unreachable: every
\* push of remove_unused_parameters finds a free slot in the ring, whatever
\* the controller pops and marks in between.
C17_PushNeverFull ==
    /\ [](recycle.pc # "panicked")
    /\ [][PushUnused => ~RingFull(unusedRing, NumUnused)]_vars
\* a second parameter was drained in one call, after the controller popped
\* the first one between the push and the is_full check
C17_Witness ==
    /\ recycle.pc = "push"
    /\ Cardinality(recycle.visited) = NumParameters
    /\ \A i \in 1 .. NumParameters : ~parameters[i].occupied

\* C18: with the audio callback and the controller's pops going on, every
\* parameter marked for removal is eventually taken out of the arena and
\* pushed onto the unused ring, and what is in the ring is eventually popped,
\* also when more parameters are marked than the ring holds.
C18_MarkedEventuallyRecycled ==
    /\ \A i \in 1 .. NumParameters, g \in 1 .. MaxGeneration :
          (parameters[i].occupied /\ parameters[i].marked
              /\ parameters[i].generation = g)
          ~> (~(parameters[i].occupied /\ parameters[i].generation = g)
                 /\ recycle.held = <<>>)
    /\ (unusedRing # <<>>) ~> (unusedRing = <<>>)
\* both parameters are marked while the ring holds one
C18_Witness ==
    /\ \A i \in 1 .. NumParameters : parameters[i].occupied /\ parameters[i].marked
    /\ NumParameters > NumUnused
    /\ recycle.pc = "drain"

(***************************************************************************)
(* StaticSound playback (static_sound.rs lines 28-39 and 74-85).  The      *)
(* position counts ticks of 1 / (sample_rate * PosDen) seconds, so that    *)
(* dt = 1 / sample_rate is PosDen ticks and the sample position, in units  *)
(* of 1 / PosDen samples, is the position itself.                          *)
(***************************************************************************)
NanosPerSec == 1000000000
\* floor(num * 10^9 / den) for 0 <= num < den, without leaving 32 bits
NanosFloor(num, den) ==
    num * (NanosPerSec \div den) + (num * (NanosPerSec % den)) \div den
\* whether num * 10^9 / den is a whole number, and twice its fractional part
\* compared with 1
NanosExact(num, den) == (num * (NanosPerSec % den)) % den = 0
NanosAboveHalf(num, den) == 2 * ((num * (NanosPerSec % den)) % den) > den
\* Duration::from_secs_f64(secs) for secs = num / den: whole seconds and
\* nanoseconds, rounded as the toolchain does
duration_from_secs(num, den, rounding) ==
    [secs |-> num \div den,
     nanos |-> NanosFloor(num % den, den)
               + (IF rounding = "nearest" /\ NanosAboveHalf(num % den, den)
                  THEN 1 ELSE 0)]
\* StaticSound::duration (lines 37-39)
duration(snd, rounding) ==
    duration_from_secs(Len(snd.samples), snd.sample_rate, rounding)
\* self.position >= the duration: a comparison that is not strict
position_reaches_duration(snd, position, rounding) ==
    LET d == duration(snd, rounding)
        ticks == snd.sample_rate * PosDen
        secs == position \div ticks
        rem == position % ticks
    IN  \/ secs > d.secs
        \/ secs = d.secs /\ d.nanos <= NanosFloor(rem, ticks)
\* line 76: self.position > self.duration().as_secs_f64()
position_exceeds_duration(snd, position, rounding) ==
    LET d == duration(snd, rounding)
        ticks == snd.sample_rate * PosDen
        secs == position \div ticks
        rem == position % ticks
    IN  \/ secs > d.secs
        \/ /\ secs = d.secs
           /\ IF NanosExact(rem, ticks) THEN d.nanos < NanosFloor(rem, ticks)
              ELSE d.nanos <= NanosFloor(rem, ticks)
\* a process() that stops the sound already at its duration
process_static_not_strict(snd, st, dt, rounding) ==
    [out |-> FrameAtSamplePosition(snd, st.position),
     sound |-> [state |-> IF position_reaches_duration(snd, st.position, rounding)
                          THEN "Stopped" ELSE st.state,
                position |-> st.position + dt]]
\* StaticSound::process (lines 74-81): the sound afterwards and the frame
process_static(snd, st, dt, rounding) ==
    [out |-> FrameAtSamplePosition(snd, st.position),
     sound |-> [state |-> IF position_exceeds_duration(snd, st.position, rounding)
                          THEN "Stopped" ELSE st.state,
                position |-> st.position + dt]]
\* StaticSound::finished (lines 83-85)
finished(st) == st.state = "Stopped"

\* the positions a sound is followed to: two sample periods past the end of
\* the longest buffer
LastTick == (MaxSamples + 3) * PosDen
\* the process() calls a sound is followed for
MaxCalls == MaxSamples + 3

\* StaticSound::new on a buffer and a sample rate
InitStatic ==
    /\ InitBackend
    /\ InitParameters
    /\ build = "kira"
    /\ \E rate \in 1 .. 3, samples \in SampleBuffers :
          sound = [sample_rate |-> rate, samples |-> samples]
    /\ lookup = [asked |-> FALSE, position |-> 0, frame |-> 0, static_frame |-> 0]
    /\ settings_cooldown = <<>>
    /\ cooldown_timer = 0
    /\ cooldownElapsed = -1
    /\ static_sound = [state |-> "Playing", position |-> 0]
    /\ playback = [calls |-> 0, steady |-> TRUE, position_before |-> 0, out |-> 0]
    /\ duration_rounding \in {"truncate", "nearest"}

\* the mixer calls process(dt); steady records that every call so far had
\* dt = 1 / sample_rate
ProcessStatic(dt) ==
    /\ build = "kira"
    /\ static_sound.position + dt <= LastTick
    /\ playback.calls < MaxCalls
    /\ LET r == process_static(sound, static_sound, dt, duration_rounding)
       IN  /\ static_sound' = r.sound
           /\ playback' = [calls |-> playback.calls + 1,
                           steady |-> playback.steady /\ dt = PosDen,
                           position_before |-> static_sound.position,
                           out |-> r.out]
    /\ UNCHANGED <<conductorVars, parameterVars, build, sound, lookup, cooldownVars,
                   duration_rounding>>

NextStatic == \E dt \in 0 .. MaxDt : ProcessStatic(dt)

SpecStatic == InitStatic /\ [][NextStatic]_vars

\* C19: a new StaticSound is Playing at position 0 and not finished; each
\* process(dt) with dt >= 0 returns the frame at the position held before
\* the call and then adds dt, so the position is never negative and never
\* decreases; the state changes only from Playing to Stopped, exactly in a
\* call that finds the position strictly greater than duration(); Stopped is
\* absorbing; Pausing is never reached.
C19_StaticPlayback ==
    /\ [](playback.calls = 0 =>
            /\ static_sound = [state |-> "Playing", position |-> 0]
            /\ ~finished(static_sound))
    /\ [](static_sound.position >= 0 /\ static_sound.state \in {"Playing", "Stopped"})
    /\ [][\A dt \in 0 .. MaxDt : ProcessStatic(dt) =>
            /\ playback'.out = FrameAtSamplePosition(sound, static_sound.position)
            /\ static_sound'.position = static_sound.position + dt
            /\ static_sound'.position >= static_sound.position
            /\ (static_sound'.state # static_sound.state) <=>
                  /\ static_sound.state = "Playing"
                  /\ static_sound'.state = "Stopped"
                  /\ position_exceeds_duration(sound, static_sound.position,
                                               duration_rounding)
            /\ finished(static_sound) => finished(static_sound')]_vars
\* a sound of 2 samples was stopped by a call that found it past its end,
\* after a call with dt = 0
C19_Witness ==
    /\ finished(static_sound)
    /\ Len(sound.samples) = 2
    /\ playback.calls > 2
    /\ ~playback.steady
    /\ playback.position_before = static_sound.position

\* C20: a sound of N samples processed with the constant dt = 1 /
\* sample_rate is finished after call number N + 2 and not before, and
\* every frame returned from a position at or past (N + 1) / sample_rate is
\* ZERO.
C20_StaticTerminates ==
    /\ (playback.steady /\ playback.calls > 0) =>
          (finished(static_sound) <=> playback.calls >= Len(sound.samples) + 2)
    /\ (playback.calls > 0
            /\ playback.position_before >= (Len(sound.samples) + 1) * PosDen)
          => playback.out = FrameZero

(***************************************************************************)
(* A project with two metronomes: the controller starts both, and a        *)
(* sequence bound to the first.                                            *)
(***************************************************************************)
InitMetronomes ==
    /\ InitBackendOf({"M1", "M2"})
    /\ InitParameters
    /\ InitNoSound
    /\ build = "conductor"

MetronomeCommands ==
    {StartMetronome("M1"), StartMetronome("M2"), StartSequence(1, 1)}

SubmitMetronomes == \E command \in MetronomeCommands : SendCommand(command)

NextMetronomes == SubmitMetronomes \/ PopEvent \/ Audio

SpecMetronomes == InitMetronomes /\ [][NextMetronomes]_vars

\* the intervals the metronome id crossed at its latest tick, in the order
\* it reports them
CrossedIntervals(id) ==
    LET m == metronomes[id]
    IN  IF m.ticking /\ m.time = m.previous_time + 1
        THEN SelectSeq(MetronomeIntervals[id],
                       LAMBDA iv : (m.time \div iv) > (m.previous_time \div iv))
        ELSE <<>>

IsSuffix(s, t) == \E k \in 0 .. Len(t) : s = SubSeq(t, k + 1, Len(t))

ScratchBuffersEmpty ==
    /\ metronome_interval_event_collector = <<>>
    /\ sequence_command_queue = <<>>
    /\ sequences_to_remove = <<>>
    /\ instances_to_remove = <<>>

\* C21: the scratch buffers carry nothing across cycles or across
\* metronomes.  When process() has returned, the interval collector, the
\* sequence command queue, sequences_to_remove and instances_to_remove are
\* empty.  A metronome is updated only when the collector is empty, and its
\* update leaves in the collector exactly the intervals it crossed, in its
\* order; what is left in the collector is always the rest of the intervals
\* of the metronome updated last; each interval leaves the collector from
\* the head, once, and the event ring receives it tagged with the id of
\* that metronome (or is full and stays as it is).
C21_ScratchBuffers ==
    /\ [](pc = "idle" => ScratchBuffersEmpty)
    /\ [](metronome_interval_event_collector # <<>> =>
             /\ pc = "update_metronomes"
             /\ mi >= 1
             /\ IsSuffix(metronome_interval_event_collector,
                         CrossedIntervals(ProjectMetronomes[mi])))
    /\ [][mi' = mi + 1 =>
             /\ metronome_interval_event_collector = <<>>
             /\ metronome_interval_event_collector' =
                   CrossedIntervals(ProjectMetronomes[mi])'
             /\ \A id \in DOMAIN metronomes :
                   id # ProjectMetronomes[mi + 1] =>
                       metronomes'[id] = metronomes[id]]_vars
    /\ [][(metronome_interval_event_collector' # metronome_interval_event_collector
              /\ mi' # mi + 1) =>
             /\ metronome_interval_event_collector # <<>>
             /\ metronome_interval_event_collector' =
                   Tail(metronome_interval_event_collector)
             /\ mi' = mi
             /\ metronomes' = metronomes
             /\ \/ eventRing' =
                      Append(eventRing,
                             [id |-> ProjectMetronomes[mi],
                              interval |->
                                  Head(metronome_interval_event_collector)])
                \/ Len(eventRing) >= NumEvents /\ eventRing' = eventRing]_vars
    /\ [][Len(eventRing') > Len(eventRing) =>
             metronome_interval_event_collector' # metronome_interval_event_collector]_vars

\* a process() call has returned in which M1 crossed the intervals 1 and 2
\* and M2 the interval 1, the waiting sequence ran its last command and was
\* removed, and the event ring holds M1's last event followed by M2's
C21_Witness ==
    /\ pc = "idle"
    /\ "mix" \in Range(trace)
    /\ metronomes["M1"].time = 2
    /\ metronomes["M2"].time = 2
    /\ eventRing = <<[id |-> "M1", interval |-> 2], [id |-> "M2", interval |-> 1]>>
    /\ cycleRan = <<PlaySound("A", 2)>>
    /\ sequences = <<>>
    /\ ScratchBuffersEmpty

====
